---- MODULE Spec2Model ----
(***************************************************************************)
(* Model of tools/frameConversion.py: elementary rotation matrices, the    *)
(* body-to-geocentric direction cosine matrix, and the position and        *)
(* velocity transforms between the rotating and the inertial frame.        *)
(*                                                                         *)
(* The library is stateless.  The state of the model is the last call      *)
(* made on it: the function called, its arguments and what it returned or  *)
(* raised.  Every action is one call (or one composition of two calls      *)
(* made by a caller) with its arguments drawn from bounded sets.           *)
(*                                                                         *)
(* Numbers.  A float64 is modelled by an exact rational [n, d] in lowest   *)
(* terms with d > 0; [n |-> 0, d |-> 0] is NaN, which every operation      *)
(* propagates as IEEE arithmetic does.  Angles are drawn from the twelve   *)
(* directions whose cosine and sine are rational with denominator 5 (the   *)
(* four quarter turns and the eight 3-4-5 directions), so np.cos, np.sin   *)
(* and every product below are exact.  Rounding is not modelled.           *)
(***************************************************************************)
EXTENDS Integers, Sequences, FiniteSets, TLC

VARIABLES call, args, ret, numpy

vars == <<call, args, ret, numpy>>

-----------------------------------------------------------------------------
(* Bounds *)

\* largest number of rows of a batch (rR, vR, vI) and of a theta sequence
MaxN == 3

\* epochs are 0..MaxTime, in quarters of the canonical period TU
MaxTime == 4

-----------------------------------------------------------------------------
(* float64 arithmetic on exact rationals *)

Abs(x) == IF x < 0 THEN -x ELSE x

RECURSIVE GCD(_, _)
GCD(a, b) == IF b = 0 THEN a ELSE GCD(b, a % b)

NaN == [n |-> 0, d |-> 0]

IsNaN(a) == a.d = 0

\* the float n/d; anything over zero is not a finite number
Q(n, d) ==
    IF d = 0 THEN NaN
    ELSE LET g == GCD(Abs(n), Abs(d))
             s == IF d < 0 THEN -1 ELSE 1
         IN  [n |-> (s * n) \div g, d |-> (s * d) \div g]

Z(n) == [n |-> n, d |-> 1]

Add(a, b) == IF IsNaN(a) \/ IsNaN(b) THEN NaN ELSE Q(a.n * b.d + b.n * a.d, a.d * b.d)

Neg(a) == IF IsNaN(a) THEN NaN ELSE [n |-> -a.n, d |-> a.d]

Sub(a, b) == Add(a, Neg(b))

Mul(a, b) == IF IsNaN(a) \/ IsNaN(b) THEN NaN ELSE Q(a.n * b.n, a.d * b.d)

\* 0/0 is NaN.  x/0 with x # 0 is inf in numpy; no call below divides a
\* nonzero number by zero, so inf is not given a value of its own.
Div(a, b) == IF IsNaN(a) \/ IsNaN(b) THEN NaN ELSE Q(a.n * b.d, a.d * b.n)

ISqrt(n) == CHOOSE k \in 0..n : k * k = n

\* np.sqrt on the rationals whose root is rational
Sqrt(a) == IF IsNaN(a) THEN NaN ELSE Q(ISqrt(a.n), ISqrt(a.d))

-----------------------------------------------------------------------------
(* np.cos and np.sin on the twelve exact directions; an angle is its index *)
(* counter-clockwise from 0: 3, 6 and 9 are the quarter turns              *)

Angles == 0..11

CosNum == <<5, 4, 3, 0, -3, -4, -5, -4, -3, 0, 3, 4>>

SinNum == <<0, 3, 4, 5, 4, 3, 0, -3, -4, -5, -4, -3>>

Cos(th) == Q(CosNum[th + 1], 5)

Sin(th) == Q(SinNum[th + 1], 5)

-----------------------------------------------------------------------------
(* numpy vectors (3-tuples) and matrices (3-tuples of rows) *)

Vec(x, y, z) == <<Z(x), Z(y), Z(z)>>

Dot(a, b) == Add(Add(Mul(a[1], b[1]), Mul(a[2], b[2])), Mul(a[3], b[3]))

\* M @ v
MatVec(M, v) == <<Dot(M[1], v), Dot(M[2], v), Dot(M[3], v)>>

\* M.T
Transpose(M) ==
    << <<M[1][1], M[2][1], M[3][1]>>,
       <<M[1][2], M[2][2], M[3][2]>>,
       <<M[1][3], M[2][3], M[3][3]>> >>

\* A @ B
MatMul(A, B) ==
    LET Bt == Transpose(B)
        row(i) == <<Dot(A[i], Bt[1]), Dot(A[i], Bt[2]), Dot(A[i], Bt[3])>>
    IN  <<row(1), row(2), row(3)>>

\* A + B on matrices
MatAdd(A, B) ==
    LET row(i) == <<Add(A[i][1], B[i][1]), Add(A[i][2], B[i][2]), Add(A[i][3], B[i][3])>>
    IN  <<row(1), row(2), row(3)>>

\* M * s, a matrix times a float
MatScale(M, s) ==
    LET row(i) == <<Mul(M[i][1], s), Mul(M[i][2], s), Mul(M[i][3], s)>>
    IN  <<row(1), row(2), row(3)>>

VecAdd(a, b) == <<Add(a[1], b[1]), Add(a[2], b[2]), Add(a[3], b[3])>>

VecScale(v, s) == <<Mul(v[1], s), Mul(v[2], s), Mul(v[3], s)>>

VecDiv(v, s) == <<Div(v[1], s), Div(v[2], s), Div(v[3], s)>>

\* np.identity(3)
Identity == <<Vec(1, 0, 0), Vec(0, 1, 0), Vec(0, 0, 1)>>

\* np.cross(a, b)
Cross(a, b) ==
    << Sub(Mul(a[2], b[3]), Mul(a[3], b[2])),
       Sub(Mul(a[3], b[1]), Mul(a[1], b[3])),
       Sub(Mul(a[1], b[2]), Mul(a[2], b[1])) >>

\* np.linalg.norm(v)
Norm(v) == Sqrt(Dot(v, v))

-----------------------------------------------------------------------------
(* ndarrays of floats: a 3-vector (shape (3,)) and an N x 3 array of rows; *)
(* a 3 x 3 matrix is an array of three rows.  x.ndim is len(x.shape).      *)

Arr1(v) == [ndim |-> 1, vec |-> v]

Arr2(rows) == [ndim |-> 2, rows |-> rows]

\* x.shape[0], which is len(x)
len(x) == IF x.ndim = 1 THEN Len(x.vec) ELSE Len(x.rows)

-----------------------------------------------------------------------------
(* what a call gives back: a value, or the exception it raised *)

Ok(v) == [ok |-> TRUE, val |-> v]

Raise(e) == [ok |-> FALSE, err |-> e]

-----------------------------------------------------------------------------
(* rot(th, axis) *)

\* rot with the else-branch a careless fix would add: any other axis is axis 3
rot_defaultAxis(th, axis) ==
    IF axis = 1 THEN
        Ok(Arr2(<< <<Z(1), Z(0), Z(0)>>,
              <<Z(0), Cos(th), Sin(th)>>,
              <<Z(0), Neg(Sin(th)), Cos(th)>> >>))
    ELSE IF axis = 2 THEN
        Ok(Arr2(<< <<Cos(th), Z(0), Neg(Sin(th))>>,
              <<Z(0), Z(1), Z(0)>>,
              <<Sin(th), Z(0), Cos(th)>> >>))
    ELSE
        Ok(Arr2(<< <<Cos(th), Sin(th), Z(0)>>,
              <<Neg(Sin(th)), Cos(th), Z(0)>>,
              <<Z(0), Z(0), Z(1)>> >>))

\* rot with the sign of the sines of axis 2 and 3 lost in the lower row
rot_signSlip(th, axis) ==
    IF axis = 1 THEN
        Ok(Arr2(<< <<Z(1), Z(0), Z(0)>>,
              <<Z(0), Cos(th), Sin(th)>>,
              <<Z(0), Neg(Sin(th)), Cos(th)>> >>))
    ELSE IF axis = 2 THEN
        Ok(Arr2(<< <<Cos(th), Z(0), Sin(th)>>,
              <<Z(0), Z(1), Z(0)>>,
              <<Sin(th), Z(0), Cos(th)>> >>))
    ELSE IF axis = 3 THEN
        Ok(Arr2(<< <<Cos(th), Sin(th), Z(0)>>,
              <<Sin(th), Cos(th), Z(0)>>,
              <<Z(0), Z(0), Z(1)>> >>))
    ELSE Raise("UnboundLocalError")

\* no branch assigns rot_th for another axis: the return raises
rot(th, axis) ==
    IF axis = 1 THEN
        Ok(Arr2(<< <<Z(1), Z(0), Z(0)>>,
              <<Z(0), Cos(th), Sin(th)>>,
              <<Z(0), Neg(Sin(th)), Cos(th)>> >>))
    ELSE IF axis = 2 THEN
        Ok(Arr2(<< <<Cos(th), Z(0), Neg(Sin(th))>>,
              <<Z(0), Z(1), Z(0)>>,
              <<Sin(th), Z(0), Cos(th)>> >>))
    ELSE IF axis = 3 THEN
        Ok(Arr2(<< <<Cos(th), Sin(th), Z(0)>>,
              <<Neg(Sin(th)), Cos(th), Z(0)>>,
              <<Z(0), Z(0), Z(1)>> >>))
    ELSE Raise("UnboundLocalError")

-----------------------------------------------------------------------------
(* convertTime_to_canonical: not defined in this file; dt/TU * 2 pi.       *)
(* Epochs are counted in quarters of TU, so dt quarters are dt quarter     *)
(* turns, three steps of the twelve directions each.                       *)

convertTime_to_canonical(dt) == (3 * dt) % 12

-----------------------------------------------------------------------------
(* body2rot(currentTime, equinox) *)

body2rot(currentTime, equinox) ==
    LET dt == currentTime - equinox[1]
        theta == convertTime_to_canonical(dt)
    IN  rot(theta, 3)

\* a call of body2rot with the positional arguments argv
body2rotCall(argv) ==
    IF Len(argv) # 2 THEN Raise("TypeError") ELSE body2rot(argv[1], argv[2])

-----------------------------------------------------------------------------
(* body2geo(currentTime, kernel, equinox).  The kernel lookup, icrs2gcrs   *)
(* and convertPos_to_canonical are collaborators: kernel stands for what   *)
(* they deliver at currentTime, the vector r_earth_bary_G.                 *)

\* r_skew with one off-diagonal pair swapped in sign
skew_signSlip(n_hat) ==
    << <<Z(0), Neg(n_hat[3]), n_hat[2]>>,
       <<n_hat[3], Z(0), n_hat[1]>>,
       <<Neg(n_hat[2]), Neg(n_hat[1]), Z(0)>> >>

\* r_skew as built from n_hat
skew(n_hat) ==
    << <<Z(0), Neg(n_hat[3]), n_hat[2]>>,
       <<n_hat[3], Z(0), Neg(n_hat[1])>>,
       <<Neg(n_hat[2]), n_hat[1], Z(0)>> >>

\* r_theta (arctan2) is computed and never used; it is left out
body2geo(currentTime, kernel, equinox) ==
    LET r_earth_bary_G == kernel
        mu_star == Norm(r_earth_bary_G)
        r_earth_bary_R == VecScale(Vec(-1, 0, 0), mu_star)
        dt == currentTime - equinox[1]
        theta == convertTime_to_canonical(dt)
        C_B2R == rot(theta, 3).val.rows
        C_R2B == Transpose(C_B2R)
        r_earth_bary_B == MatVec(C_R2B, r_earth_bary_R)
        n_vec == Cross(r_earth_bary_B, r_earth_bary_G)
        n_hat == VecDiv(n_vec, Norm(n_vec))
        r_sin == Div(Norm(n_vec), Mul(mu_star, mu_star))
        r_cos == Dot(VecDiv(r_earth_bary_B, mu_star), VecDiv(r_earth_bary_G, mu_star))
        r_skew == skew(n_hat)
    IN  Ok(Arr2(MatAdd(MatAdd(Identity, MatScale(r_skew, r_sin)),
                       MatScale(MatMul(r_skew, r_skew), Sub(Z(1), r_cos)))))

\* a call of body2geo with the positional arguments argv
body2geoCall(argv) ==
    IF Len(argv) # 3 THEN Raise("TypeError")
    ELSE body2geo(argv[1], argv[2], argv[3])

-----------------------------------------------------------------------------
(* position conversions *)

gcrs2inert(pos, currentTime) ==
    LET C_B2G == body2geoCall(<<currentTime>>)
    IN  IF ~C_B2G.ok THEN C_B2G
        ELSE Ok(Arr1(MatVec(Transpose(C_B2G.val.rows), pos)))

\* C_G2B is never assigned in inert2gcrs
inert2gcrs(pos, currentTime) ==
    LET C_B2G == body2geoCall(<<currentTime>>)
    IN  IF ~C_B2G.ok THEN C_B2G
        ELSE Raise("NameError")

inert2rotP(pos, currentTime) ==
    LET C_I2R == body2rotCall(<<currentTime>>)
    IN  IF ~C_I2R.ok THEN C_I2R
        ELSE Ok(Arr1(MatVec(C_I2R.val.rows, pos)))

rot2inertP(pos, currentTime) ==
    LET C_I2R == body2rotCall(<<currentTime>>)
    IN  IF ~C_I2R.ok THEN C_I2R
        ELSE Ok(Arr1(MatVec(Transpose(C_I2R.val.rows), pos)))

-----------------------------------------------------------------------------
(* velocity conversions.  t_norm of inert2rotV is an array of angles: an   *)
(* np.float64 (ndim 0), a 1-D sequence, or the 2-D array the re-wrapping   *)
(* of a one-element sequence gives.                                        *)

Th0(th) == [ndim |-> 0, th |-> th]

Th1(seq) == [ndim |-> 1, seq |-> seq]

Th2(nested) == [ndim |-> 2, nested |-> nested]

\* drR of the sample r: (-r_y, r_x, 0)
transport(r) == <<Neg(r[2]), r[1], Z(0)>>

\* one pass of the loop of rot2inertV at row t, vI holding the rows before t
RECURSIVE rot2inertVLoop(_, _, _, _, _)
rot2inertVLoop(rR, vR, t_norm, t, vI) ==
    IF t > len(rR) THEN Ok(Arr2(vI))
    ELSE IF t > len(vR) THEN Raise("IndexError")
    ELSE LET At == Transpose(rot(t_norm, 3).val.rows)
             drR == transport(rR.rows[t])
         IN  rot2inertVLoop(rR, vR, t_norm, t + 1,
                 Append(vI, VecAdd(MatVec(At, vR.rows[t]), MatVec(At, drR))))

\* the loop with vR[0, :] read in every pass instead of vR[t, :]
RECURSIVE rot2inertVLoop_staleRow(_, _, _, _, _)
rot2inertVLoop_staleRow(rR, vR, t_norm, t, vI) ==
    IF t > len(rR) THEN Ok(Arr2(vI))
    ELSE IF t > len(vR) THEN Raise("IndexError")
    ELSE LET At == Transpose(rot(t_norm, 3).val.rows)
             drR == transport(rR.rows[t])
         IN  rot2inertVLoop_staleRow(rR, vR, t_norm, t + 1,
                 Append(vI, VecAdd(MatVec(At, vR.rows[1]), MatVec(At, drR))))

\* rot2inertV with the batch branch reading the stale row
rot2inertV_staleRow(rR, vR, t_norm) ==
    IF len(rR) = 3 /\ rR.ndim = 1 THEN
        LET At == Transpose(rot(t_norm, 3).val.rows)
            drR == transport(rR.vec)
        IN  Ok(Arr1(VecAdd(MatVec(At, vR.vec), MatVec(At, drR))))
    ELSE rot2inertVLoop_staleRow(rR, vR, t_norm, 1, <<>>)

rot2inertV(rR, vR, t_norm) ==
    IF len(rR) = 3 /\ rR.ndim = 1 THEN
        LET At == Transpose(rot(t_norm, 3).val.rows)
            drR == transport(rR.vec)
        IN  Ok(Arr1(VecAdd(MatVec(At, vR.vec), MatVec(At, drR))))
    ELSE rot2inertVLoop(rR, vR, t_norm, 1, <<>>)

\* len(t_norm) of a 1-D or 2-D t_norm
tlen(t_norm) == IF t_norm.ndim = 1 THEN Len(t_norm.seq) ELSE Len(t_norm.nested)

\* t_norm.size
size(t_norm) == IF t_norm.ndim = 0 THEN 1 ELSE Len(t_norm.seq)

\* np.array([t_norm]): one more dimension, of length 1
wrap(t_norm) ==
    IF t_norm.ndim = 0 THEN Th1(<<t_norm.th>>)
    ELSE Th2(<<t_norm.seq>>)

\* rot(th, axis) with th a one-element array: np.cos(th) and np.sin(th) are
\* arrays beside the floats 0.0 and 1.0, and np.array is handed a ragged
\* nested list.  numpy from 1.24 raises ValueError; older numpy warns and
\* builds an object matrix, whose products are those of rot(th[0], axis).
rotOfArray(th, axis) ==
    IF axis \notin {1, 2, 3} THEN Raise("UnboundLocalError")
    ELSE IF numpy = "raises" THEN Raise("ValueError")
    ELSE rot(th[1], axis)

\* one pass of the loop of inert2rotV at row t, vR holding the rows before t
RECURSIVE inert2rotVLoop(_, _, _, _, _)
inert2rotVLoop(rR, vI, t_norm, t, vR) ==
    IF t > tlen(t_norm) THEN Ok(Arr2(vR))
    ELSE LET At == IF t_norm.ndim = 1 THEN rot(t_norm.seq[t], 3)
                   ELSE rotOfArray(t_norm.nested[t], 3)
         IN  IF ~At.ok THEN At
             ELSE IF t > len(vI) \/ t > len(rR) THEN Raise("IndexError")
             ELSE inert2rotVLoop(rR, vI, t_norm, t + 1,
                     Append(vR, VecAdd(MatVec(At.val.rows, vI.rows[t]),
                                       <<rR.rows[t][2], Neg(rR.rows[t][1]), Z(0)>>)))

\* the loop with the sign of the added term that of rot2inertV's drR
RECURSIVE inert2rotVLoop_signSlip(_, _, _, _, _)
inert2rotVLoop_signSlip(rR, vI, t_norm, t, vR) ==
    IF t > tlen(t_norm) THEN Ok(Arr2(vR))
    ELSE LET At == IF t_norm.ndim = 1 THEN rot(t_norm.seq[t], 3)
                   ELSE rotOfArray(t_norm.nested[t], 3)
         IN  IF ~At.ok THEN At
             ELSE IF t > len(vI) \/ t > len(rR) THEN Raise("IndexError")
             ELSE inert2rotVLoop_signSlip(rR, vI, t_norm, t + 1,
                     Append(vR, VecAdd(MatVec(At.val.rows, vI.rows[t]),
                                       <<Neg(rR.rows[t][2]), rR.rows[t][1], Z(0)>>)))

\* inert2rotV running the loop with the slipped sign
inert2rotV_signSlip(rR, vI, t_norm) ==
    LET t_norm1 == IF size(t_norm) = 1 THEN wrap(t_norm) ELSE t_norm
    IN  inert2rotVLoop_signSlip(rR, vI, t_norm1, 1, <<>>)

inert2rotV(rR, vI, t_norm) ==
    LET t_norm1 == IF size(t_norm) = 1 THEN wrap(t_norm) ELSE t_norm
    IN  inert2rotVLoop(rR, vI, t_norm1, 1, <<>>)

-----------------------------------------------------------------------------
(* the arguments calls are tried with *)

\* the axis values callers are tried with
AxisValues == {0, 1, 2, 3, 4}

Times == 0..MaxTime

\* equinox sequences; only the first element is read
Equinoxes == {<<0>>, <<1>>, <<0, 2>>}

\* r_earth_bary_G: the integer points at distance 1 and 5 from the origin,
\* for which every norm body2geo takes is rational
EphemerisVectors ==
    {Vec(x, y, z) : <<x, y, z>> \in
        {v \in (-5..5) \X (-5..5) \X (-5..5) :
            v[1] * v[1] + v[2] * v[2] + v[3] * v[3] \in {1, 25}}}

\* single position and velocity vectors
Vectors ==
    {Vec(0, 0, 0), Vec(1, 0, 0), Vec(0, 1, 0), Vec(1, 2, 3), Vec(-2, 5, 1),
     <<Q(1, 2), Q(-3, 4), Z(2)>>}

\* rows of the position batches rR
PositionRows == {Vec(1, 2, 3), Vec(-3, 1, 0)}

\* rows of the velocity batches vR and vI
VelocityRows == {Vec(0, 0, 0), Vec(2, -1, 4)}

\* the N x 3 batches with rows from S
Batches(S, N) == {Arr2(a) : a \in [1..N -> S]}

\* the angles theta sequences are made of
ThetaSamples == {1, 9}

\* t_norm of inert2rotV: an np.float64, or a 1-D array of 1..MaxN angles
ThetaArgs ==
    {Th0(th) : th \in ThetaSamples}
    \cup UNION {{Th1(a) : a \in [1..M -> ThetaSamples]} : M \in 1..MaxN}

\* np.full(N, th)
Full(N, th) == Th1([t \in 1..N |-> th])

-----------------------------------------------------------------------------
(* the state machine.  No function of the file writes a module global, so  *)
(* a behaviour is one call, made from the state in which none was made.    *)

NoArgs == [none |-> TRUE]

NoRet == [none |-> TRUE]

Init ==
    /\ call = "none"
    /\ args = NoArgs
    /\ ret = NoRet
    /\ numpy \in {"raises", "object"}

CallRot ==
    \E th \in Angles, axis \in AxisValues :
        /\ call = "none"
        /\ call' = "rot"
        /\ args' = [th |-> th, axis |-> axis]
        /\ ret' = rot(th, axis)
        /\ UNCHANGED numpy

CallBody2rot ==
    \E currentTime \in Times, equinox \in Equinoxes :
        /\ call = "none"
        /\ call' = "body2rot"
        /\ args' = [currentTime |-> currentTime, equinox |-> equinox]
        /\ ret' = body2rotCall(<<currentTime, equinox>>)
        /\ UNCHANGED numpy

CallBody2geo ==
    \E currentTime \in Times, kernel \in EphemerisVectors, equinox \in Equinoxes :
        /\ call = "none"
        /\ call' = "body2geo"
        /\ args' = [currentTime |-> currentTime, kernel |-> kernel, equinox |-> equinox]
        /\ ret' = body2geoCall(<<currentTime, kernel, equinox>>)
        /\ UNCHANGED numpy

CallGcrs2inert ==
    \E pos \in Vectors, currentTime \in Times :
        /\ call = "none"
        /\ call' = "gcrs2inert"
        /\ args' = [pos |-> pos, currentTime |-> currentTime]
        /\ ret' = gcrs2inert(pos, currentTime)
        /\ UNCHANGED numpy

CallInert2gcrs ==
    \E pos \in Vectors, currentTime \in Times :
        /\ call = "none"
        /\ call' = "inert2gcrs"
        /\ args' = [pos |-> pos, currentTime |-> currentTime]
        /\ ret' = inert2gcrs(pos, currentTime)
        /\ UNCHANGED numpy

CallInert2rotP ==
    \E pos \in Vectors, currentTime \in Times :
        /\ call = "none"
        /\ call' = "inert2rotP"
        /\ args' = [pos |-> pos, currentTime |-> currentTime]
        /\ ret' = inert2rotP(pos, currentTime)
        /\ UNCHANGED numpy

CallRot2inertP ==
    \E pos \in Vectors, currentTime \in Times :
        /\ call = "none"
        /\ call' = "rot2inertP"
        /\ args' = [pos |-> pos, currentTime |-> currentTime]
        /\ ret' = rot2inertP(pos, currentTime)
        /\ UNCHANGED numpy

\* a caller's rot2inertP(inert2rotP(pos, t), t): an exception of the inner
\* call propagates
RoundTripP ==
    \E pos \in Vectors, currentTime \in Times :
        /\ call = "none"
        /\ call' = "rot2inertP(inert2rotP)"
        /\ args' = [pos |-> pos, currentTime |-> currentTime]
        /\ ret' = LET r_rot == inert2rotP(pos, currentTime)
                  IN  IF ~r_rot.ok THEN r_rot ELSE rot2inertP(r_rot.val.vec, currentTime)
        /\ UNCHANGED numpy

\* a caller's gcrs2inert(inert2gcrs(pos, t), t)
RoundTripG ==
    \E pos \in Vectors, currentTime \in Times :
        /\ call = "none"
        /\ call' = "gcrs2inert(inert2gcrs)"
        /\ args' = [pos |-> pos, currentTime |-> currentTime]
        /\ ret' = LET r_gcrs == inert2gcrs(pos, currentTime)
                  IN  IF ~r_gcrs.ok THEN r_gcrs ELSE gcrs2inert(r_gcrs.val.vec, currentTime)
        /\ UNCHANGED numpy

CallRot2inertVSingle ==
    \E rR \in Vectors, vR \in Vectors, t_norm \in Angles :
        /\ call = "none"
        /\ call' = "rot2inertV"
        /\ args' = [rR |-> Arr1(rR), vR |-> Arr1(vR), t_norm |-> t_norm]
        /\ ret' = rot2inertV(Arr1(rR), Arr1(vR), t_norm)
        /\ UNCHANGED numpy

CallRot2inertVBatch ==
    \E N \in 1..MaxN, t_norm \in Angles :
        \E rR \in Batches(PositionRows, N), vR \in Batches(VelocityRows, N) :
            /\ call = "none"
            /\ call' = "rot2inertV"
            /\ args' = [rR |-> rR, vR |-> vR, t_norm |-> t_norm]
            /\ ret' = rot2inertV(rR, vR, t_norm)
            /\ UNCHANGED numpy

CallInert2rotV ==
    \E N \in 1..MaxN, t_norm \in ThetaArgs :
        \E rR \in Batches(PositionRows, N), vI \in Batches(VelocityRows, N) :
            /\ call = "none"
            /\ call' = "inert2rotV"
            /\ args' = [rR |-> rR, vI |-> vI, t_norm |-> t_norm]
            /\ ret' = inert2rotV(rR, vI, t_norm)
            /\ UNCHANGED numpy

\* a caller's inert2rotV(rR, rot2inertV(rR, vR, th), np.full(N, th))
RoundTripV ==
    \E N \in 1..MaxN, th \in Angles :
        \E rR \in Batches(PositionRows, N), vR \in Batches(VelocityRows, N) :
            /\ call = "none"
            /\ call' = "inert2rotV(rot2inertV)"
            /\ args' = [rR |-> rR, vR |-> vR, t_norm |-> th]
            /\ ret' = LET vI == rot2inertV(rR, vR, th)
                      IN  IF ~vI.ok THEN vI ELSE inert2rotV(rR, vI.val, Full(N, th))
            /\ UNCHANGED numpy

Next ==
    \/ CallRot
    \/ CallBody2rot
    \/ CallBody2geo
    \/ CallGcrs2inert
    \/ CallInert2gcrs
    \/ CallInert2rotP
    \/ CallRot2inertP
    \/ RoundTripP
    \/ RoundTripG
    \/ CallRot2inertVSingle
    \/ CallRot2inertVBatch
    \/ CallInert2rotV
    \/ RoundTripV

Spec == Init /\ [][Next]_vars

-----------------------------------------------------------------------------
(* Properties *)

ZeroVec == Vec(0, 0, 0)

\* the angle -th among the twelve directions
NegAngle(th) == (12 - th) % 12

Det(M) ==
    Add(Sub(Mul(M[1][1], Sub(Mul(M[2][2], M[3][3]), Mul(M[2][3], M[3][2]))),
            Mul(M[1][2], Sub(Mul(M[2][1], M[3][3]), Mul(M[2][3], M[3][1])))),
        Mul(M[1][3], Sub(Mul(M[2][1], M[3][2]), Mul(M[2][2], M[3][1]))))

HasNaN(M) == \E i \in 1..3, j \in 1..3 : IsNaN(M[i][j])

\* C1: for every angle and every axis in {1,2,3}, rot(th, axis) is
\* orthonormal and its transpose is rot(-th, axis); for axis 3 it is
\* [[cos, sin, 0], [-sin, cos, 0], [0, 0, 1]] and rot(th,3) @ rot(-th,3) = I.
C1_RotOrthonormal ==
    (call = "rot" /\ args.axis \in {1, 2, 3}) =>
        /\ ret.ok
        /\ MatMul(Transpose(ret.val.rows), ret.val.rows) = Identity
        /\ Transpose(ret.val.rows) = rot(NegAngle(args.th), args.axis).val.rows
        /\ args.axis = 3 =>
            /\ ret.val.rows = << <<Cos(args.th), Sin(args.th), Z(0)>>,
                                 <<Neg(Sin(args.th)), Cos(args.th), Z(0)>>,
                                 <<Z(0), Z(0), Z(1)>> >>
            /\ MatMul(ret.val.rows, rot(NegAngle(args.th), 3).val.rows) = Identity

C1_Witness ==
    /\ call = "rot"
    /\ args.axis = 2
    /\ args.th = 1
    /\ ret.ok
    /\ ret.val.rows[1][3] = Q(-3, 5)

\* C2: converting a vector inertial -> rotating and back at the same epoch
\* completes without error and returns the vector.
C2_PositionRoundTrip ==
    call = "rot2inertP(inert2rotP)" => (ret.ok /\ ret.val = Arr1(args.pos))

\* C3: inert2gcrs returns DCM^T @ pos and gcrs2inert returns DCM @ pos with
\* DCM a matrix of body2geo at the epoch; both complete without error, and
\* composed at the same epoch they return pos.
C3_GeocentricTransforms ==
    /\ call = "inert2gcrs" =>
        /\ ret.ok
        /\ \E kernel \in EphemerisVectors, equinox \in Equinoxes :
              ret.val = Arr1(MatVec(Transpose(body2geo(args.currentTime, kernel, equinox).val.rows),
                                    args.pos))
    /\ call = "gcrs2inert" =>
        /\ ret.ok
        /\ \E kernel \in EphemerisVectors, equinox \in Equinoxes :
              ret.val = Arr1(MatVec(body2geo(args.currentTime, kernel, equinox).val.rows, args.pos))
    /\ call = "gcrs2inert(inert2gcrs)" => (ret.ok /\ ret.val = Arr1(args.pos))

\* the vectors body2geo aligns, from the arguments of the call
C4_rG == args.kernel

C4_mu == Norm(C4_rG)

C4_theta == convertTime_to_canonical(args.currentTime - args.equinox[1])

C4_rB == <<Neg(Mul(C4_mu, Cos(C4_theta))), Neg(Mul(C4_mu, Sin(C4_theta))), Z(0)>>

C4_n == Cross(C4_rB, C4_rG)

\* I + [n]x sin(phi) + [n]x^2 (1 - cos(phi)) for the unit axis along n, with
\* the norm of n divided out: I + [n]x / mu^2 + [n]x^2 (mu^2 - rB.rG) / (mu^2 |n|^2)
C4_Rodrigues ==
    LET mu2 == Mul(C4_mu, C4_mu)
        N == skew(C4_n)
    IN  MatAdd(MatAdd(Identity, MatScale(N, Div(Z(1), mu2))),
               MatScale(MatMul(N, N),
                        Div(Sub(mu2, Dot(C4_rB, C4_rG)), Mul(mu2, Dot(C4_n, C4_n)))))

\* C4: for r_B and r_G of equal length mu_star and not parallel, the matrix
\* of body2geo is orthonormal with determinant +1, maps r_B onto r_G, leaves
\* the axis r_B x r_G fixed, and is the Rodrigues rotation about that axis.
C4_Body2geoIsRotation ==
    (call = "body2geo" /\ C4_n # ZeroVec) =>
        /\ ret.ok
        /\ MatMul(Transpose(ret.val.rows), ret.val.rows) = Identity
        /\ Det(ret.val.rows) = Z(1)
        /\ MatVec(ret.val.rows, C4_rB) = C4_rG
        /\ MatVec(ret.val.rows, C4_n) = C4_n
        /\ ret.val.rows = C4_Rodrigues

C4_Witness ==
    /\ call = "body2geo"
    /\ args.kernel = Vec(0, 3, 4)
    /\ args.currentTime = 2
    /\ args.equinox = <<1>>
    /\ C4_rB = Vec(0, -5, 0)
    /\ ret.ok
    /\ ~HasNaN(ret.val.rows)
    /\ ret.val.rows # Identity

\* the row rot(th,3)^T @ v + rot(th,3)^T @ (-r_y, r_x, 0), written out
C5_Row(r, v, th) ==
    LET wx == Sub(v[1], r[2])
        wy == Add(v[2], r[1])
    IN  << Sub(Mul(Cos(th), wx), Mul(Sin(th), wy)),
           Add(Mul(Sin(th), wx), Mul(Cos(th), wy)),
           v[3] >>

\* C5: rot2inertV on a batch of N >= 1 samples gives N rows, row t being
\* what rot2inertV gives on the 3-vectors rR[t], vR[t] with the same theta:
\* rot(theta,3)^T @ vR[t] + rot(theta,3)^T @ (-rR[t,1], rR[t,0], 0), which
\* with vR[t] = 0 is the transport term alone.
C5_BatchEqualsPerSample ==
    (call = "rot2inertV" /\ args.rR.ndim = 2) =>
        /\ ret.ok
        /\ ret.val.ndim = 2
        /\ len(ret.val) = len(args.rR)
        /\ \A t \in 1..len(args.rR) :
            /\ ret.val.rows[t] =
                 rot2inertV(Arr1(args.rR.rows[t]), Arr1(args.vR.rows[t]), args.t_norm).val.vec
            /\ ret.val.rows[t] = C5_Row(args.rR.rows[t], args.vR.rows[t], args.t_norm)
            /\ args.vR.rows[t] = ZeroVec =>
                 ret.val.rows[t] = MatVec(Transpose(rot(args.t_norm, 3).val.rows),
                                       <<Neg(args.rR.rows[t][2]), args.rR.rows[t][1], Z(0)>>)

C5_Witness ==
    /\ call = "rot2inertV"
    /\ args.rR.ndim = 2
    /\ len(args.rR) = 3
    /\ args.rR.rows[1] # args.rR.rows[2]
    /\ args.vR.rows[1] # args.vR.rows[2]
    /\ args.vR.rows[3] = ZeroVec
    /\ args.t_norm = 1
    /\ ret.ok
    /\ len(ret.val) = 3

\* C6: inert2rotV with a theta sequence whose length differs from the number
\* of rows of rR and vI raises and returns nothing.
C6_LengthMismatchRaises ==
    (call = "inert2rotV" /\ args.t_norm.ndim = 1
        /\ Len(args.t_norm.seq) # len(args.rR)) => ~ret.ok

\* C7: when r_B and r_G are parallel or anti-parallel, body2geo raises and
\* never returns a matrix with NaN entries.
C7_DegenerateRaises ==
    (call = "body2geo" /\ C4_n = ZeroVec) => ~ret.ok

\* C8: rot with an axis outside {1,2,3} raises for every angle and returns
\* no matrix.
C8_BadAxisRaises ==
    (call = "rot" /\ args.axis \notin {1, 2, 3}) => (~ret.ok /\ "val" \notin DOMAIN ret)

C8_Witness ==
    /\ call = "rot"
    /\ args.axis = 4
    /\ args.th = 2
    /\ ret.err = "UnboundLocalError"

\* C9: for every N >= 1, N = 1 included, inert2rotV with rR, vI of N rows
\* and a theta sequence of length N returns N rows, row t being
\* rot(theta[t],3) @ vI[t] + (rR[t,1], -rR[t,0], 0).
C9_EqualLengthRows ==
    (call = "inert2rotV" /\ args.t_norm.ndim = 1
        /\ Len(args.t_norm.seq) = len(args.rR)) =>
        /\ ret.ok
        /\ len(ret.val) = len(args.rR)
        /\ \A t \in 1..len(args.rR) :
             ret.val.rows[t] =
                 VecAdd(MatVec(rot(args.t_norm.seq[t], 3).val.rows, args.vI.rows[t]),
                        <<args.rR.rows[t][2], Neg(args.rR.rows[t][1]), Z(0)>>)

\* C10: for batches of N >= 2 samples and every angle theta,
\* inert2rotV(rR, rot2inertV(rR, vR, theta), theta repeated N times) is vR.
C10_VelocityRoundTrip ==
    (call = "inert2rotV(rot2inertV)" /\ len(args.rR) >= 2) =>
        (ret.ok /\ ret.val = args.vR)

C10_Witness ==
    /\ call = "inert2rotV(rot2inertV)"
    /\ len(args.rR) = 2
    /\ args.t_norm = 1
    /\ args.vR.rows[1] = Vec(2, -1, 4)
    /\ args.rR.rows[1] # args.rR.rows[2]
    /\ ret.ok
    /\ ret.val.rows[1] = Vec(2, -1, 4)

====
